---------------------------- MODULE Spec2Model ----------------------------
(***************************************************************************)
(* A model of adept.agents.actor_critic.ActorCritic: the agent's rollout   *)
(* cache, its recurrent internal state, the two action-selection entry     *)
(* points (act, act_eval) for the GYM and SC2 engines, and compute_loss.   *)
(*                                                                         *)
(* Numbers.  The tensors of the program hold floating-point numbers; the   *)
(* model computes with exact rationals <<n, d>> (d > 0, lowest terms), so  *)
(* every identity checked here is an identity of the arithmetic the code   *)
(* writes down, not of its rounding.                                       *)
(*                                                                         *)
(* Indices.  Python indexes a rollout 0 .. rollout_len-1; the sequences of *)
(* the model are indexed 1 .. rollout_len, so step i of the code is        *)
(* element i+1 here.                                                       *)
(***************************************************************************)
EXTENDS Integers, Sequences, FiniteSets, TLC

\* ------------------------------------------------------------ bounds

\* Largest nb_rollout, the capacity of the cache, of the agent's life cycle.
MaxLen == 2

\* Longest rollout compute_loss is applied to as a function of its inputs.
LossLen == 3

\* nb_env, the number of parallel environments (the batch dimension).
NbEnv == 2

Envs == 1..NbEnv

\* ------------------------------------------------ rational arithmetic

RECURSIVE GCD(_, _)
GCD(a, b) == IF b = 0 THEN a ELSE GCD(b, a % b)

Abs(x) == IF x < 0 THEN -x ELSE x

\* n/d in lowest terms, d > 0.
Rat(n, d) == LET g == GCD(Abs(n), d) IN <<n \div g, d \div g>>

Zero == <<0, 1>>
One == <<1, 1>>
Half == <<1, 2>>

RAdd(a, b) == Rat(a[1] * b[2] + b[1] * a[2], a[2] * b[2])
RSub(a, b) == Rat(a[1] * b[2] - b[1] * a[2], a[2] * b[2])
RMul(a, b) == Rat(a[1] * b[1], a[2] * b[2])
\* a / k for a positive integer k.
RDivInt(a, k) == Rat(a[1], a[2] * k)

\* tensor.sum(dim): the sum of f over the finite index set S.
RECURSIVE RSum(_, _)
RSum(f, S) ==
    IF S = {} THEN Zero
    ELSE LET x == CHOOSE y \in S : TRUE IN RAdd(f[x], RSum(f, S \ {x}))

\* A per-environment vector: a for the odd environments, b for the even.
Vec(a, b) == [e \in Envs |-> IF e % 2 = 1 THEN a ELSE b]

\* ------------------------------------------------------ configuration

\* self.entropy_weight: the constructor's default, which from_args keeps.
entropy_weight == <<1, 100>>

\* _action_keys: the head names of the action space, per engine.
GymHeads == {"action"}
Sc2Heads == {"arg_a", "arg_b", "func_id"}
action_keys(eng) == IF eng = "SC2" THEN Sc2Heads ELSE GymHeads

\* The function ids of the SC2 action space; 0 is the no-op.
FuncIds == {0, 1, 2}

\* SC2ActionLookup: the argument heads each function id activates.
func_id_to_headnames ==
    [f \in FuncIds |->
        IF f = 0 THEN {} ELSE IF f = 1 THEN {"arg_a"} ELSE {"arg_a", "arg_b"}]

\* (engine, discount, gae, tau) the agent is constructed with.
Setups ==
    { [engine |-> "GYM", discount |-> Half, gae |-> FALSE, tau |-> One],
      [engine |-> "GYM", discount |-> Half, gae |-> TRUE, tau |-> Half],
      [engine |-> "GYM", discount |-> Zero, gae |-> TRUE, tau |-> Zero],
      [engine |-> "SC2", discount |-> Half, gae |-> TRUE, tau |-> Half] }

\* network.new_internals: the recurrent state the factory makes.
new_internals == "h0"

\* The recurrent states an inference can return.
NetInternals == {"h1", "h2"}

\* self.network(obs, internals)[1]: the state an inference returns, here
\* the other one of NetInternals than the state it was given.
network_internals(cur) == IF cur = "h1" THEN "h2" ELSE "h1"

\* ------------------------------------------------------------- inputs

\* What the network and the sampler give one GYM act call: the critic's
\* values, the sampled action of each head, its gathered log-probability
\* and the head's entropy, per environment.
GymDraws ==
    { [values |-> Vec(Zero, Zero),
       actions |-> [h \in GymHeads |-> Vec(0, 1)],
       log_probs |-> [e \in Envs |-> [h \in GymHeads |-> Vec(<<-1, 2>>, <<-1, 1>>)[e]]],
       entropies |-> [e \in Envs |-> [h \in GymHeads |-> Vec(Half, One)[e]]]],
      [values |-> Vec(Half, One),
       actions |-> [h \in GymHeads |-> Vec(1, 1)],
       log_probs |-> [e \in Envs |-> [h \in GymHeads |-> Vec(<<-2, 1>>, <<-1, 2>>)[e]]],
       entropies |-> [e \in Envs |-> [h \in GymHeads |-> Vec(One, Half)[e]]]] }

\* The same for one SC2 act call, before the masks (no log-probability
\* and no entropy is zero), with obs['available_actions'], the legal
\* function ids of each environment.
Sc2Draws ==
    { [values |-> Vec(Zero, Half),
       actions |-> [h \in Sc2Heads |-> IF h = "func_id" THEN Vec(1, 2) ELSE Vec(0, 1)],
       available |-> Vec({0, 1}, {0, 1}),
       log_probs |-> [e \in Envs |-> [h \in Sc2Heads |->
                        IF h = "func_id" THEN Vec(<<-1, 2>>, <<-1, 1>>)[e] ELSE <<-1, 1>>]],
       entropies |-> [e \in Envs |-> [h \in Sc2Heads |->
                        IF h = "arg_b" THEN Half ELSE One]]],
      [values |-> Vec(One, Zero),
       actions |-> [h \in Sc2Heads |-> IF h = "func_id" THEN Vec(2, 0) ELSE Vec(1, 0)],
       available |-> Vec({0, 1, 2}, {2}),
       log_probs |-> [e \in Envs |-> [h \in Sc2Heads |->
                        IF h = "arg_a" THEN <<-2, 1>> ELSE Vec(<<-1, 1>>, <<-1, 2>>)[e]]],
       entropies |-> [e \in Envs |-> [h \in Sc2Heads |-> Vec(Half, One)[e]]]] }

\* One environment step as the cache's write stores it: the rewards and
\* the terminal masks (0 where the episode ended, else 1).
EnvChoices ==
    { [rewards |-> Vec(One, Zero), terminals |-> Vec(One, One)],
      [rewards |-> Vec(Zero, One), terminals |-> Vec(One, Zero)],
      [rewards |-> Vec(One, One), terminals |-> Vec(Zero, One)] }

\* The critic's value of the observation after the rollout.
BootChoices == { Vec(Zero, Zero), Vec(One, Half) }

\* ---------------------------------------------------------------- state

VARIABLES
    engine,         \* self.engine
    nb_rollout,     \* the rollout length handed to RolloutCache
    discount,       \* self.discount
    gae,            \* self.gae
    tau,            \* self.tau
    exp_cache,      \* self._exp_cache: the sequences of the rollout cache
    internals,      \* self._internals
    nb_act,         \* history: the act calls completed since the last reset
    last            \* the most recent call: its name, arguments and result

vars == <<engine, nb_rollout, discount, gae, tau, exp_cache, internals, nb_act, last>>

config == <<engine, nb_rollout, discount, gae, tau>>

\* RolloutCache(nb_rollout, ..., ['values', 'log_probs', 'entropies']).
EmptyCache ==
    [rewards |-> <<>>, terminals |-> <<>>,
     values |-> <<>>, log_probs |-> <<>>, entropies |-> <<>>]

Init ==
    /\ \E s \in Setups :
          /\ engine = s.engine
          /\ discount = s.discount
          /\ gae = s.gae
          /\ tau = s.tau
    /\ nb_rollout = MaxLen
    /\ exp_cache = EmptyCache
    /\ internals = new_internals
    /\ nb_act = 0
    /\ last = [op |-> "init"]

\* ---------------------------------------------------------- the cache

\* RolloutCache.write_forward: one step of values, log_probs, entropies.
write_forward(c, values, log_probs, entropies) ==
    [c EXCEPT !.values = Append(@, values),
              !.log_probs = Append(@, log_probs),
              !.entropies = Append(@, entropies)]

\* The collaborator's write of one environment step (reward, terminal),
\* while the cache has room.
WriteEnv ==
    /\ Len(exp_cache.rewards) < nb_rollout
    /\ \E s \in EnvChoices :
          exp_cache' = [exp_cache EXCEPT !.rewards = Append(@, s.rewards),
                                         !.terminals = Append(@, s.terminals)]
    /\ last' = [op |-> "write_env"]
    /\ UNCHANGED <<config, internals, nb_act>>

\* RolloutCache.reset: clears every sequence.
Reset ==
    /\ exp_cache' = EmptyCache
    /\ nb_act' = 0
    /\ last' = [op |-> "reset"]
    /\ UNCHANGED <<config, internals>>

\* ------------------------------------------------------------- acting

\* _act_gym: inference, sampling, write_forward, the new internals.  The
\* caller acts while the cache has room: a write past nb_rollout steps is a
\* contract violation of the cache, which the model leaves out.
ActGym ==
    /\ engine = "GYM"
    /\ Len(exp_cache.values) < nb_rollout
    /\ \E d \in GymDraws :
          /\ exp_cache' = write_forward(exp_cache, d.values, d.log_probs, d.entropies)
          /\ last' = [op |-> "act", actions |-> d.actions,
                      net_internals |-> network_internals(internals)]
    /\ internals' = network_internals(internals)
    /\ nb_act' = nb_act + 1
    /\ UNCHANGED config

\* noop_unavailable keeping the sampled action.
noop_unavailable_off(action, available) == action

\* "convert unavailable actions to NOOP".
noop_unavailable(action, available) == IF action \in available THEN action ELSE 0

\* actions['func_id'] after the loop over the batch.
corrected_func_id(d) ==
    [e \in Envs |-> noop_unavailable(d.actions["func_id"][e], d.available[e])]

\* head_masks: ones for func_id, zeros for the other heads, then ones for
\* the heads the function id activates.
head_mask(key, func_id) ==
    IF key = "func_id" THEN One
    ELSE IF key \in func_id_to_headnames[func_id] THEN One ELSE Zero

\* log_probs * head_masks, and entropies * head_masks.
masked(x, func_id) ==
    [e \in Envs |-> [h \in Sc2Heads |-> RMul(x[e][h], head_mask(h, func_id[e]))]]

\* _act_sc2: as _act_gym, with the no-op substitution and the head masks.
ActSc2 ==
    /\ engine = "SC2"
    /\ Len(exp_cache.values) < nb_rollout
    /\ \E d \in Sc2Draws :
          LET func_id == corrected_func_id(d)
          IN  /\ exp_cache' = write_forward(exp_cache, d.values,
                                            masked(d.log_probs, func_id),
                                            masked(d.entropies, func_id))
              /\ last' = [op |-> "act",
                          actions |-> [d.actions EXCEPT !["func_id"] = func_id],
                          net_internals |-> network_internals(internals),
                          sampled |-> d.actions["func_id"],
                          available |-> d.available,
                          raw_log_probs |-> d.log_probs,
                          raw_entropies |-> d.entropies]
    /\ internals' = network_internals(internals)
    /\ nb_act' = nb_act + 1
    /\ UNCHANGED config

\* ActEvalGym writing its step to the cache as act does.
ActEvalGymWriting ==
    /\ engine = "GYM"
    /\ Len(exp_cache.values) < nb_rollout
    /\ \E d \in GymDraws :
          /\ exp_cache' = write_forward(exp_cache, d.values, d.log_probs, d.entropies)
          /\ last' = [op |-> "act_eval", actions |-> d.actions,
                      net_internals |-> network_internals(internals)]
    /\ internals' = network_internals(internals)
    /\ UNCHANGED <<config, nb_act>>

\* _act_eval_gym: inference, arg-max, the new internals; no cache write.
ActEvalGym ==
    /\ engine = "GYM"
    /\ \E d \in GymDraws :
          last' = [op |-> "act_eval", actions |-> d.actions,
                   net_internals |-> network_internals(internals)]
    /\ internals' = network_internals(internals)
    /\ UNCHANGED <<config, exp_cache, nb_act>>

\* _act_eval_sc2: as _act_eval_gym, with the no-op substitution.
ActEvalSc2 ==
    /\ engine = "SC2"
    /\ \E d \in Sc2Draws :
          last' = [op |-> "act_eval",
                   actions |-> [d.actions EXCEPT !["func_id"] = corrected_func_id(d)],
                   net_internals |-> network_internals(internals),
                   sampled |-> d.actions["func_id"],
                   available |-> d.available]
    /\ internals' = network_internals(internals)
    /\ UNCHANGED <<config, exp_cache, nb_act>>

\* ---------------------------------------------------------- compute_loss

\* Every tensor operation of the loop is elementwise over the batch, so the
\* model runs the loop once per environment e on that environment's scalars
\* and sums over the batch where the code does.

\* The accumulators before the loop: nstep_returns = last_values, gae = 0,
\* the three losses 0.  nstep and adv keep each iteration's nstep_returns
\* and advantages, which the loop computes and the losses are built from.
loop_start(last_value) ==
    [nstep_returns |-> last_value, gae |-> Zero,
     policy_loss |-> Zero, value_loss |-> Zero, entropy_loss |-> Zero,
     nstep |-> <<>>, adv |-> <<>>]

\* nstep_step without the terminal mask.
nstep_step_unmasked(reward, nstep_returns, terminal) ==
    RAdd(reward, RMul(discount, nstep_returns))

\* nstep_returns = rewards + self.discount * nstep_returns * terminals
nstep_step(reward, nstep_returns, terminal) ==
    RAdd(reward, RMul(RMul(discount, nstep_returns), terminal))

\* nxt_values_at taking the bootstrap value at every step.
nxt_values_last(r, e, i, rollout_len, last_value) == last_value

\* nxt_values: last_values at the last step, else the next step's values.
nxt_values_at(r, e, i, rollout_len, last_value) ==
    IF i = rollout_len THEN last_value ELSE r.values[i + 1][e]

\* delta_t = rewards + self.discount * nxt_values * terminals - values
delta_step(reward, nxt_value, terminal, value) ==
    RSub(RAdd(reward, RMul(RMul(discount, nxt_value), terminal)), value)

\* gae_step without the terminal mask on the accumulator.
gae_step_unmasked(g, terminal, delta_t) ==
    RAdd(RMul(RMul(g, discount), tau), delta_t)

\* gae = gae * self.discount * self.tau * terminals + delta_t
gae_step(g, terminal, delta_t) ==
    RAdd(RMul(RMul(RMul(g, discount), tau), terminal), delta_t)

\* value_loss = value_loss + 0.5 * advantages.pow(2)
value_loss_step(value_loss, advantage) ==
    RAdd(value_loss, RMul(Half, RMul(advantage, advantage)))

\* One iteration of "for i in reversed(range(rollout_len))", environment e.
loop_body(r, e, i, rollout_len, last_value, acc) ==
    LET reward == r.rewards[i][e]
        terminal == r.terminals[i][e]
        value == r.values[i][e]
        log_probs == r.log_probs[i][e]
        entropies == r.entropies[i][e]
        heads == DOMAIN log_probs
        nstep_returns == nstep_step(reward, acc.nstep_returns, terminal)
        nstep_adv == RSub(nstep_returns, value)
        nxt_value == nxt_values_at(r, e, i, rollout_len, last_value)
        delta_t == delta_step(reward, nxt_value, terminal, value)
        g == IF gae THEN gae_step(acc.gae, terminal, delta_t) ELSE acc.gae
        advantage == IF gae THEN g ELSE nstep_adv
    IN  [nstep_returns |-> nstep_returns,
         gae |-> g,
         policy_loss |->
            RSub(acc.policy_loss,
                 RSum([h \in heads |-> RMul(log_probs[h], advantage)], heads)),
         value_loss |-> value_loss_step(acc.value_loss, nstep_adv),
         entropy_loss |->
            RSub(acc.entropy_loss,
                 RSum([h \in heads |-> RMul(entropy_weight, entropies[h])], heads)),
         nstep |-> <<nstep_returns>> \o acc.nstep,
         adv |-> <<advantage>> \o acc.adv]

\* The loop, from step i down to the first, for environment e.
RECURSIVE loss_loop(_, _, _, _, _, _)
loss_loop(r, e, i, rollout_len, last_value, acc) ==
    IF i = 0 THEN acc
    ELSE loss_loop(r, e, i - 1, rollout_len, last_value,
                   loop_body(r, e, i, rollout_len, last_value, acc))

\* The loop's accumulators of environments 1 .. n, as a tuple.
RECURSIVE loop_batch(_, _, _)
loop_batch(r, last_values, n) ==
    IF n = 0 THEN <<>>
    ELSE Append(loop_batch(r, last_values, n - 1),
                loss_loop(r, n, Len(r.rewards), Len(r.rewards), last_values[n],
                          loop_start(last_values[n])))

\* policy_mean dividing by the steps and the batch only.
policy_mean_no_heads(total, batch_size, rollout_len, nb_action) ==
    RDivInt(total, batch_size * rollout_len)

\* policy_loss.sum(0) / (batch_size * rollout_len * nb_action), and the
\* same line for entropy_loss.
policy_mean(total, batch_size, rollout_len, nb_action) ==
    RDivInt(total, batch_size * rollout_len * nb_action)

\* 0.5 * value_loss.sum(0) / (batch_size * rollout_len)
value_mean(total, batch_size, rollout_len) ==
    RDivInt(RMul(Half, total), batch_size * rollout_len)

\* Where the code raises: with no step, policy_loss is still the float 0.
\* and has no shape; with fewer forward writes than rewards, r.values[i]
\* is out of range at the first iteration.
loss_raises(r) ==
    \/ Len(r.rewards) = 0
    \/ Len(r.values) < Len(r.rewards)

\* compute_loss(rollouts, next_obs) after the bootstrap inference.  Beside
\* the losses, the result keeps nstep[i][e] and adv[i][e], the loop's
\* nstep_returns and advantages of step i, environment e.
compute_loss(r, last_values) ==
    IF loss_raises(r) THEN [status |-> "error"]
    ELSE
      LET rollout_len == Len(r.rewards)
          acc == loop_batch(r, last_values, NbEnv)
          batch_size == NbEnv
          nb_action == Cardinality(DOMAIN r.log_probs[1][1])
      IN  [status |-> "ok",
           losses |->
              [value_loss |->
                  value_mean(RSum([e \in Envs |-> acc[e].value_loss], Envs),
                             batch_size, rollout_len),
               policy_loss |->
                  policy_mean(RSum([e \in Envs |-> acc[e].policy_loss], Envs),
                              batch_size, rollout_len, nb_action),
               entropy_loss |->
                  policy_mean(RSum([e \in Envs |-> acc[e].entropy_loss], Envs),
                              batch_size, rollout_len, nb_action)],
           nstep |-> [i \in 1..rollout_len |-> [e \in Envs |-> acc[e].nstep[i]]],
           adv |-> [i \in 1..rollout_len |-> [e \in Envs |-> acc[e].adv[i]]]]

\* ComputeLoss clearing the cache it has read.
ComputeLossResetting ==
    /\ \E last_values \in BootChoices :
          last' = [op |-> "compute_loss", last_values |-> last_values,
                   net_internals |-> network_internals(internals),
                   result |-> compute_loss(exp_cache, last_values)]
    /\ exp_cache' = EmptyCache
    /\ UNCHANGED <<config, internals, nb_act>>

\* ComputeLoss keeping the state its bootstrap inference returns.
ComputeLossKeepingInternals ==
    /\ \E last_values \in BootChoices :
          last' = [op |-> "compute_loss", last_values |-> last_values,
                   net_internals |-> network_internals(internals),
                   result |-> compute_loss(exp_cache, last_values)]
    /\ internals' = network_internals(internals)
    /\ UNCHANGED <<config, exp_cache, nb_act>>

\* compute_loss on the rollout the cache holds (rollouts = exp_cache.read()):
\* the bootstrap inference, whose returned state is dropped ("results, _"),
\* then the loop and the means.  No statement of it writes self.exp_cache
\* or self.internals.
ComputeLoss ==
    /\ \E last_values \in BootChoices :
          last' = [op |-> "compute_loss", last_values |-> last_values,
                   net_internals |-> network_internals(internals),
                   result |-> compute_loss(exp_cache, last_values)]
    /\ UNCHANGED <<config, exp_cache, internals, nb_act>>

Next == ActGym \/ ActSc2 \/ ActEvalGym \/ ActEvalSc2 \/ WriteEnv \/ Reset \/ ComputeLoss

Spec == Init /\ [][Next]_vars

\* ------------------------------------------ compute_loss on any rollout

\* The steps one act call can write: what _act_gym or _act_sc2 hands to
\* write_forward.
ForwardSteps(eng) ==
    IF eng = "SC2"
    THEN { [values |-> d.values,
            log_probs |-> masked(d.log_probs, corrected_func_id(d)),
            entropies |-> masked(d.entropies, corrected_func_id(d))] : d \in Sc2Draws }
    ELSE { [values |-> d.values, log_probs |-> d.log_probs,
            entropies |-> d.entropies] : d \in GymDraws }

\* The cache after n act calls and n environment writes.
CacheOf(n, f, w) ==
    [rewards |-> [i \in 1..n |-> w[i].rewards],
     terminals |-> [i \in 1..n |-> w[i].terminals],
     values |-> [i \in 1..n |-> f[i].values],
     log_probs |-> [i \in 1..n |-> f[i].log_probs],
     entropies |-> [i \in 1..n |-> f[i].entropies]]

\* Every rollout of 1 .. LossLen steps the agent can have collected, under
\* every setup, just before compute_loss.
InitLoss ==
    /\ \E s \in Setups :
          /\ engine = s.engine
          /\ discount = s.discount
          /\ gae = s.gae
          /\ tau = s.tau
    /\ nb_rollout = LossLen
    /\ \E n \in 1..LossLen :
          /\ \E f \in [1..n -> ForwardSteps(engine)], w \in [1..n -> EnvChoices] :
                exp_cache = CacheOf(n, f, w)
          /\ nb_act = n
    /\ internals = "h1"
    /\ last = [op |-> "write_env"]

\* compute_loss, applied once to each of these rollouts.
NextLoss == last.op # "compute_loss" /\ ComputeLoss

SpecLoss == InitLoss /\ [][NextLoss]_vars

\* -------------------------------------------------------------- claims

\* compute_loss has just returned losses.
LossDone == last.op = "compute_loss" /\ last.result.status = "ok"

\* len(r.rewards) of the rollout compute_loss has just read.
RolloutLen == Len(exp_cache.rewards)

RECURSIVE RPow(_, _)
RPow(a, n) == IF n = 0 THEN One ELSE RMul(a, RPow(a, n - 1))

\* sum over steps k .. n of discount^(k-1) * reward[k][e].
RECURSIVE DiscountedRewards(_, _, _)
DiscountedRewards(e, k, n) ==
    IF k > n THEN Zero
    ELSE RAdd(RMul(RPow(discount, k - 1), exp_cache.rewards[k][e]),
              DiscountedRewards(e, k + 1, n))

\* Environment e's terminal mask is 1 at every step of the rollout.
AllRunning(e) == \A k \in 1..RolloutLen : exp_cache.terminals[k][e] = One

\* ------------------------------------------------------------------ C1
\* C1: for every rollout length and every environment, with or without
\* GAE, target[i] = reward[i] + discount * target[i+1] * terminal[i], seeded
\* with the bootstrap value after the last step; and where every terminal
\* mask of an environment is 1, its first target is
\* sum_k discount^k * reward[k] + discount^L * bootstrap.
NStepReturnTarget ==
    LossDone =>
      \A e \in Envs :
        /\ \A i \in 1..RolloutLen :
              last.result.nstep[i][e] =
                 RAdd(exp_cache.rewards[i][e],
                      RMul(RMul(discount,
                                IF i = RolloutLen THEN last.last_values[e]
                                ELSE last.result.nstep[i + 1][e]),
                           exp_cache.terminals[i][e]))
        /\ AllRunning(e) =>
              last.result.nstep[1][e] =
                 RAdd(DiscountedRewards(e, 1, RolloutLen),
                      RMul(RPow(discount, RolloutLen), last.last_values[e]))

\* A rollout of three steps or more, an environment that never terminates
\* in it, a discount and a bootstrap value that are not 0.
NStepReturnTargetWitness ==
    /\ LossDone
    /\ RolloutLen >= 3
    /\ discount = Half
    /\ \E e \in Envs : AllRunning(e) /\ last.last_values[e] # Zero

\* ------------------------------------------------------------------ C2
\* The rollout of the cache with every step after i, and the bootstrap
\* value, replaced: other rewards, values, and terminal masks of 1.
AltRewards == Vec(<<3, 1>>, <<2, 1>>)
AltValues == Vec(<<2, 1>>, <<3, 1>>)
AltBoot == Vec(<<5, 1>>, <<7, 1>>)

AltRollout(r, i) ==
    [r EXCEPT !.rewards = [k \in 1..Len(r.rewards) |-> IF k <= i THEN @[k] ELSE AltRewards],
              !.terminals = [k \in 1..Len(r.rewards) |-> IF k <= i THEN @[k] ELSE Vec(One, One)],
              !.values = [k \in 1..Len(r.rewards) |-> IF k <= i THEN @[k] ELSE AltValues]]

\* The loop on that other rollout, for environment e.
AltLoop(i, e) ==
    loss_loop(AltRollout(exp_cache, i), e, RolloutLen, RolloutLen, AltBoot[e],
              loop_start(AltBoot[e]))

\* C2: where terminal[i] is 0 for an environment, its target[i] and its
\* advantage[i] (the GAE accumulator under GAE) are those of step i alone,
\* reward[i] and reward[i] - value[i], and they are the same on a rollout
\* that differs in every later reward, terminal, value and in the bootstrap
\* value.
TerminalCutsFuture ==
    LossDone =>
      \A i \in 1..RolloutLen, e \in Envs :
        exp_cache.terminals[i][e] = Zero =>
          /\ last.result.nstep[i][e] = exp_cache.rewards[i][e]
          /\ last.result.adv[i][e] =
                RSub(exp_cache.rewards[i][e], exp_cache.values[i][e])
          /\ LET alt == AltLoop(i, e)
             IN  /\ alt.nstep[i] = last.result.nstep[i][e]
                 /\ alt.adv[i] = last.result.adv[i][e]

\* A terminal mask of 0 before the last step, under GAE with discount and
\* tau not 0, where the other rollout does differ at the step after it.
TerminalCutsFutureWitness ==
    /\ LossDone
    /\ gae
    /\ discount = Half
    /\ tau = Half
    /\ \E i \in 1..(RolloutLen - 1), e \in Envs :
          /\ exp_cache.terminals[i][e] = Zero
          /\ exp_cache.rewards[i + 1][e] # Zero
          /\ AltLoop(i, e).nstep[i + 1] # last.result.nstep[i + 1][e]
          /\ AltLoop(i, e).adv[i + 1] # last.result.adv[i + 1][e]

\* ------------------------------------------------------------------ C3
\* reward[i] + discount * next_value * terminal[i] - value[i]
Delta(i, e) ==
    RSub(RAdd(exp_cache.rewards[i][e],
              RMul(RMul(discount,
                        IF i = RolloutLen THEN last.last_values[e]
                        ELSE exp_cache.values[i + 1][e]),
                   exp_cache.terminals[i][e])),
         exp_cache.values[i][e])

\* sum over steps k .. L of w_k * delta[k], where w_{k+1} =
\* w_k * discount * tau * terminal[k].
RECURSIVE GaeSum(_, _, _)
GaeSum(e, k, w) ==
    IF k > RolloutLen THEN Zero
    ELSE RAdd(RMul(w, Delta(k, e)),
              GaeSum(e, k + 1,
                     RMul(w, RMul(RMul(discount, tau), exp_cache.terminals[k][e]))))

\* C3: under GAE the advantage of step i is the accumulator
\* gae * discount * tau * terminal[i] + delta[i], from gae = 0 after the
\* last step, with next_value the next step's value or the bootstrap value;
\* unrolled, the weighted sum of the later deltas; with discount = tau = 0
\* it is reward[i] - value[i].
GaeAdvantage ==
    (LossDone /\ gae) =>
      \A i \in 1..RolloutLen, e \in Envs :
        /\ last.result.adv[i][e] =
              RAdd(RMul(RMul(RMul(IF i = RolloutLen THEN Zero
                                  ELSE last.result.adv[i + 1][e],
                                  discount), tau),
                        exp_cache.terminals[i][e]),
                   Delta(i, e))
        /\ last.result.adv[i][e] = GaeSum(e, i, One)
        /\ (discount = Zero /\ tau = Zero) =>
              last.result.adv[i][e] =
                 RSub(exp_cache.rewards[i][e], exp_cache.values[i][e])

\* GAE over three steps or more without a terminal in an environment, the
\* values of the steps not all alike, discount and tau not 0.
GaeAdvantageWitness ==
    /\ LossDone
    /\ gae
    /\ RolloutLen >= 3
    /\ discount = Half
    /\ tau = Half
    /\ \E e \in Envs :
          /\ AllRunning(e)
          /\ exp_cache.values[2][e] # last.last_values[e]
          /\ last.result.adv[1][e] # Delta(1, e)

\* ------------------------------------------------------------------ C4
\* sum over steps 1 .. i and the batch of (target - value)^2.
RECURSIVE SquaredErrors(_)
SquaredErrors(i) ==
    IF i = 0 THEN Zero
    ELSE RAdd(SquaredErrors(i - 1),
              RSum([e \in Envs |->
                       RMul(RSub(last.result.nstep[i][e], exp_cache.values[i][e]),
                            RSub(last.result.nstep[i][e], exp_cache.values[i][e]))],
                   Envs))

\* C4: value_loss = 0.5 * (sum over steps and environments of
\* (target - value)^2) / (rollout_len * nb_env).
ValueLossHalfMean ==
    LossDone =>
      last.result.losses.value_loss =
         RDivInt(RMul(Half, SquaredErrors(RolloutLen)), RolloutLen * NbEnv)

\* ------------------------------------------------------------------ C5
\* sum over steps 1 .. i, the batch and the heads of log_prob * advantage.
RECURSIVE WeightedLogProbs(_)
WeightedLogProbs(i) ==
    IF i = 0 THEN Zero
    ELSE RAdd(WeightedLogProbs(i - 1),
              RSum([e \in Envs |->
                       RSum([h \in action_keys(engine) |->
                                RMul(exp_cache.log_probs[i][e][h], last.result.adv[i][e])],
                            action_keys(engine))],
                   Envs))

\* sum over steps 1 .. i, the batch and the heads of the entropies.
RECURSIVE Entropies(_)
Entropies(i) ==
    IF i = 0 THEN Zero
    ELSE RAdd(Entropies(i - 1),
              RSum([e \in Envs |-> RSum(exp_cache.entropies[i][e], action_keys(engine))],
                   Envs))

\* The two losses as totals over steps, batch and heads, divided by k.
PolicyAndEntropyOver(k) ==
    /\ last.result.losses.policy_loss =
          RDivInt(RSub(Zero, WeightedLogProbs(RolloutLen)), k)
    /\ last.result.losses.entropy_loss =
          RDivInt(RSub(Zero, RMul(entropy_weight, Entropies(RolloutLen))), k)

\* C5 as stated: policy_loss is minus the total over steps, environments
\* and heads of log_prob * advantage, divided by rollout_len * nb_env (the
\* heads summed over, not divided by), and entropy_loss is
\* -entropy_weight * the total entropy with the same divisor.
PolicyLossPerStepEnv ==
    LossDone => PolicyAndEntropyOver(RolloutLen * NbEnv)

\* C5 as amended: the divisor is rollout_len * nb_env * the number of
\* heads, for policy_loss and for entropy_loss.
PolicyLossPerStepEnvHead ==
    LossDone =>
      PolicyAndEntropyOver(RolloutLen * NbEnv * Cardinality(action_keys(engine)))

\* Losses over two steps or more of an action space of several heads,
\* neither loss 0.
PolicyLossPerStepEnvHeadWitness ==
    /\ LossDone
    /\ RolloutLen >= 2
    /\ Cardinality(action_keys(engine)) > 1
    /\ last.result.losses.policy_loss # Zero
    /\ last.result.losses.entropy_loss # Zero

\* ------------------------------------------------------------------ C6
\* The step the last act call wrote.
Written == Len(exp_cache.values)

\* C6: after a training-mode act of the SC2 engine, in every environment:
\* a sampled func_id that is not available is returned as the no-op 0;
\* every head other than func_id that the returned func_id does not
\* activate has log-probability 0 and entropy 0 in the written step; and
\* the func_id head is written unmasked.
Sc2NoopAndMasks ==
    (last.op = "act" /\ engine = "SC2") =>
      \A e \in Envs :
        /\ last.sampled[e] \notin last.available[e] => last.actions["func_id"][e] = 0
        /\ last.sampled[e] \in last.available[e] =>
              last.actions["func_id"][e] = last.sampled[e]
        /\ \A h \in Sc2Heads \ {"func_id"} :
              h \notin func_id_to_headnames[last.actions["func_id"][e]] =>
                 /\ exp_cache.log_probs[Written][e][h] = Zero
                 /\ exp_cache.entropies[Written][e][h] = Zero
        /\ exp_cache.log_probs[Written][e]["func_id"] = last.raw_log_probs[e]["func_id"]
        /\ exp_cache.entropies[Written][e]["func_id"] = last.raw_entropies[e]["func_id"]

\* An act that sampled an unavailable func_id other than 0, which activates
\* a head the no-op does not, that head's log-probability and entropy not 0
\* before the mask.
Sc2NoopAndMasksWitness ==
    /\ last.op = "act"
    /\ engine = "SC2"
    /\ \E e \in Envs, h \in Sc2Heads \ {"func_id"} :
          /\ last.sampled[e] \notin last.available[e]
          /\ h \in func_id_to_headnames[last.sampled[e]]
          /\ last.raw_log_probs[e][h] # Zero
          /\ last.raw_entropies[e][h] # Zero

\* ------------------------------------------------------------------ C7
\* C7: whatever the interleaving of act and act_eval, the forward-written
\* steps (values, log_probs, entropies) are as many as the act calls
\* completed since the last reset.
ForwardStepsCountActs ==
    /\ Len(exp_cache.values) = nb_act
    /\ Len(exp_cache.log_probs) = nb_act
    /\ Len(exp_cache.entropies) = nb_act

\* An act_eval call after the act calls have filled the cache.
ForwardStepsCountActsWitness ==
    /\ last.op = "act_eval"
    /\ nb_act = nb_rollout
    /\ Len(exp_cache.values) = nb_rollout

\* ------------------------------------------------------------------ C8
\* C8: compute_loss on a rollout of fewer than nb_rollout steps fails with
\* an error and returns no losses.
ShortRolloutIsFatal ==
    (last.op = "compute_loss" /\ RolloutLen < nb_rollout) =>
       last.result.status = "error"

\* ------------------------------------------------------------------ C9
\* The cache holds no step.
CacheIsEmpty ==
    /\ Len(exp_cache.rewards) = 0
    /\ Len(exp_cache.terminals) = 0
    /\ Len(exp_cache.values) = 0
    /\ Len(exp_cache.log_probs) = 0
    /\ Len(exp_cache.entropies) = 0

\* C9 as stated: once compute_loss has consumed a full rollout, the cache
\* is reset, every sequence of length 0.
LossResetsCache ==
    (LossDone /\ Len(last.result.nstep) = nb_rollout) => CacheIsEmpty

\* C9 as amended: compute_loss leaves the cache as it found it, the consumed
\* steps still in it; reset is what empties every sequence, and the act
\* call after a reset writes the first step of the next rollout.
LossLeavesCache ==
    [][/\ last'.op = "compute_loss" => exp_cache' = exp_cache
       /\ last'.op = "reset" => CacheIsEmpty'
       /\ (last.op = "reset" /\ last'.op = "act") => Len(exp_cache'.values) = 1]_vars

\* A full rollout that compute_loss has just consumed, still in the cache.
LossLeavesCacheWitness ==
    /\ LossDone
    /\ RolloutLen = nb_rollout
    /\ Len(exp_cache.values) = nb_rollout
    /\ Len(last.result.nstep) = nb_rollout

\* ----------------------------------------------------------------- C10
\* C10: the internals are the factory's at construction; act and act_eval
\* replace them by the state their inference returned; every other call,
\* compute_loss and its bootstrap inference included, leaves them alone.
InternalsFollowInference ==
    /\ internals = new_internals
    /\ [][IF last'.op \in {"act", "act_eval"}
          THEN internals' = last'.net_internals
          ELSE internals' = internals]_vars

\* compute_loss after an act: its bootstrap inference returned another
\* state than the agent holds.
InternalsFollowInferenceWitness ==
    /\ last.op = "compute_loss"
    /\ internals # new_internals
    /\ last.net_internals # internals

=============================================================================
